---- MODULE Spec2Model ----
(***************************************************************************)
(* HLogMonitor: the Kafka-forwarding log monitor (the Go program at lines  *)
(* 77-317 of src/sample_log/generate_logs.sh; src/monitor.go is the        *)
(* display-only variant with the same poll loop).                          *)
(*                                                                         *)
(* The model has the monitored file (content, modification time) changed   *)
(* by an outside writer, the poll loop of main (start-up, the stat half of *)
(* a tick, the read-and-send half of a growth tick), the producer's queue  *)
(* of accepted messages, and the delivery-report goroutine.  A tick is two *)
(* steps because the file can change between os.Stat and file.Read; that   *)
(* is the only way a regular file yields fewer bytes than the stat          *)
(* promised.                                                               *)
(***************************************************************************)
EXTENDS Integers, Sequences, FiniteSets, Bags, TLC

\* ---------------------------------------------------------------- bounds
MaxFileLen == 3
MaxTime == 2
\* The length of the file at start-up in the specifications that fix it.
InitLen == 1

\* ------------------------------------------------------------- constants
\* A byte of make([]byte, n) that file.Read did not fill.
NUL == 0
\* time.Time{}: what getFileInfo returns when os.Stat fails.
ZeroTime == 0
\* The bytes a writer puts in the log file (never NUL).  The monitor never
\* looks at a byte, so the writer's text is fixed: the byte at an offset tells
\* the offset's parity, which is enough to tell a range from its neighbours.
Bytes == {1, 2}
ByteAt(offset) == (offset % 2) + 1

Min(a, b) == IF a < b THEN a ELSE b
Max(a, b) == IF a > b THEN a ELSE b

Text(n) == [i \in 1..n |-> ByteAt(i - 1)]
Files == {Text(n) : n \in 0..MaxFileLen}

VARIABLES
    file,            \* content of the monitored file
    mtime,           \* its modification time, 1..MaxTime
    pc,              \* main: "start", "idle" (on the ticker), "read", "fatal"
    lastSize,        \* main's lastSize
    lastModTime,     \* main's lastModTime
    currentSize,     \* the tick's currentSize (0 outside a growth tick)
    currentModTime,  \* the tick's currentModTime
    out,             \* the lines the poll loop printed in its latest step
    dispatched,      \* every sendToKafka call: [from, value, accepted]
    inflight,        \* messages Produce accepted that have no outcome yet
    collPc,          \* handleDeliveryReports: "off", "recv", "log"
    collEv,          \* the event the collector received and has not logged
    reports,         \* bag of the messages whose outcome the collector logged
    collOut,         \* the line the collector logged last
    mPc,             \* monitor.go's main: "start", "idle", "read", "fatal"
    mLastSize,       \* monitor.go's lastSize
    mLastModTime,    \* monitor.go's lastModTime
    mCurrentSize,    \* monitor.go's currentSize (0 outside a growth tick)
    mCurrentModTime, \* monitor.go's currentModTime
    mOut             \* the lines monitor.go printed in its latest step

vars == <<file, mtime, pc, lastSize, lastModTime, currentSize, currentModTime,
          out, dispatched, inflight, collPc, collEv, reports, collOut,
          mPc, mLastSize, mLastModTime, mCurrentSize, mCurrentModTime, mOut>>

fileVars == <<file, mtime>>
loopVars == <<pc, lastSize, lastModTime, currentSize, currentModTime, out>>
kafkaVars == <<dispatched, inflight>>
collVars == <<collPc, collEv, reports, collOut>>
monVars == <<mPc, mLastSize, mLastModTime, mCurrentSize, mCurrentModTime, mOut>>

NoEvent == [msg |-> 0, ok |-> FALSE]

\* ------------------------------------------------------- pure functions

\* A faulty getFileInfo: a failed os.Stat answered with the time of the call.
getFileInfoNow(statOk) ==
    IF statOk THEN <<Len(file), mtime>> ELSE <<0, MaxTime + 1>>

\* getFileInfo: size and modification time, or (0, time.Time{}) with a warning.
getFileInfo(statOk) ==
    IF statOk THEN <<Len(file), mtime>> ELSE <<0, ZeroTime>>

\* A line of the program's output: what it says, and the numbers and text in it.
Line(kind, n, size, text) == [kind |-> kind, n |-> n, size |-> size, text |-> text]
Warn(kind) == Line(kind, 0, 0, <<>>)

getFileInfoLog(statOk) ==
    IF statOk THEN <<>> ELSE <<Warn("warn_stat")>>

\* A faulty After: "not before".
NotBefore(t, u) == t >= u

\* time.Time.After
After(t, u) == t > u

\* The bytes between oldSize and the end of the file as it is at read time.
Avail(oldSize) == Max(0, Len(file) - oldSize)

\* What one file.Read call of a buffer of newSize-oldSize bytes may return:
\* 0 (io.EOF) at or past the end, else at least 1 and at most the buffer.
ReadCounts(oldSize, newSize) ==
    IF Avail(oldSize) = 0 THEN {0}
    ELSE 1..Min(newSize - oldSize, Avail(oldSize))

ReadOutcomes == {"ok", "open", "seek", "read"}

\* A faulty readNewContent: no seek, the buffer is read from offset 0.
readNewContentNoSeek(r, k, oldSize, newSize) ==
    IF r # "ok" \/ k = 0 THEN <<>>
    ELSE [i \in 1..(newSize - oldSize) |-> IF i <= k THEN file[i] ELSE NUL]

\* readNewContent: r is what fails ("ok": nothing), k the count file.Read
\* returned.  The count is dropped: the whole buffer is returned, the bytes
\* past k still NUL.  "" is the empty sequence.
readNewContent(r, k, oldSize, newSize) ==
    IF r = "open" THEN <<>>
    ELSE IF r = "seek" THEN <<>>
    ELSE IF r = "read" \/ k = 0 THEN <<>>
    ELSE [i \in 1..(newSize - oldSize) |->
             IF i <= k THEN file[oldSize + i] ELSE NUL]

readNewContentLog(r, k, oldSize, newSize) ==
    IF r = "open" THEN <<Warn("warn_open")>>
    ELSE IF r = "seek" THEN <<Warn("warn_seek")>>
    ELSE IF r = "read" \/ k = 0 THEN <<Warn("warn_read")>>
    ELSE <<Line("content", 0, 0, readNewContent(r, k, oldSize, newSize))>>

\* ------------------------------------------------------------------ Init
Init ==
    /\ file \in Files
    /\ mtime = 1
    /\ pc = "start"
    /\ lastSize = 0
    /\ lastModTime = ZeroTime
    /\ currentSize = 0
    /\ currentModTime = ZeroTime
    /\ out = <<>>
    /\ dispatched = <<>>
    /\ inflight = {}
    /\ collPc = "off"
    /\ collEv = NoEvent
    /\ reports = EmptyBag
    /\ collOut = <<>>
    /\ mPc = "start"
    /\ mLastSize = 0
    /\ mLastModTime = ZeroTime
    /\ mCurrentSize = 0
    /\ mCurrentModTime = ZeroTime
    /\ mOut = <<>>

\* --------------------------------------------------------------- start-up
\* main up to the ticker: the flag, filepath.Abs, os.Stat (fatal only when the
\* file does not exist), loadKafkaConfig, createKafkaProducer, then the
\* baseline getFileInfo and the start of the collector goroutine.
Startup(pathOk, exists, cfgOk, prodOk, statOk) ==
    /\ pc = "start"
    /\ IF pathOk /\ exists /\ cfgOk /\ prodOk
       THEN /\ pc' = "idle"
            /\ lastSize' = getFileInfo(statOk)[1]
            /\ lastModTime' = getFileInfo(statOk)[2]
            /\ out' = getFileInfoLog(statOk)
                        \o <<Line("initial", 0, getFileInfo(statOk)[1], <<>>)>>
            /\ collPc' = "recv"
       ELSE /\ pc' = "fatal"
            /\ out' = <<Warn("fatal")>>
            /\ UNCHANGED <<lastSize, lastModTime, collPc>>
    /\ UNCHANGED <<currentSize, currentModTime>>
    /\ UNCHANGED <<fileVars, kafkaVars, collEv, reports, collOut>>

\* ------------------------------------------------------------- poll loop
\* A faulty first half of a tick: a failed stat ends the process, as the
\* checks of start-up do.
TickStatFatal(statOk) ==
    /\ pc = "idle"
    /\ LET cs == getFileInfo(statOk)[1]
           cm == getFileInfo(statOk)[2]
       IN  IF ~statOk
           THEN /\ pc' = "fatal"
                /\ out' = <<Warn("fatal")>>
                /\ UNCHANGED <<currentSize, currentModTime, lastModTime>>
           ELSE IF cs > lastSize
           THEN /\ pc' = "read"
                /\ currentSize' = cs
                /\ currentModTime' = cm
                /\ out' = <<Line("updated", cs - lastSize, cs, <<>>)>>
                /\ UNCHANGED lastModTime
           ELSE IF After(cm, lastModTime)
           THEN /\ out' = <<Line("unchanged", 0, cs, <<>>)>>
                /\ lastModTime' = cm
                /\ UNCHANGED <<pc, currentSize, currentModTime>>
           ELSE /\ out' = <<>>
                /\ UNCHANGED <<pc, currentSize, currentModTime, lastModTime>>
    /\ UNCHANGED lastSize
    /\ UNCHANGED <<fileVars, kafkaVars, collVars>>

\* The first half of a tick: getFileInfo and the choice of the branch.  The
\* size-unchanged branch and the no-op are whole ticks; the growth branch
\* prints its report and goes on to read.
TickStat(statOk) ==
    /\ pc = "idle"
    /\ LET cs == getFileInfo(statOk)[1]
           cm == getFileInfo(statOk)[2]
       IN  IF cs > lastSize
           THEN /\ pc' = "read"
                /\ currentSize' = cs
                /\ currentModTime' = cm
                /\ out' = getFileInfoLog(statOk)
                            \o <<Line("updated", cs - lastSize, cs, <<>>)>>
                /\ UNCHANGED lastModTime
           ELSE IF After(cm, lastModTime)
           THEN /\ out' = getFileInfoLog(statOk)
                            \o <<Line("unchanged", 0, cs, <<>>)>>
                /\ lastModTime' = cm
                /\ UNCHANGED <<pc, currentSize, currentModTime>>
           ELSE /\ out' = getFileInfoLog(statOk)
                /\ UNCHANGED <<pc, currentSize, currentModTime, lastModTime>>
    /\ UNCHANGED lastSize
    /\ UNCHANGED <<fileVars, kafkaVars, collVars>>

\* A faulty sendToKafka: it waits until the collector is at the channel and
\* every earlier message has its outcome.
sendToKafkaSync(from, message, produceOk) ==
    /\ collPc = "recv"
    /\ inflight = {}
    /\ dispatched' = Append(dispatched,
                         [from |-> from, value |-> message, accepted |-> produceOk])
    /\ inflight' = IF produceOk THEN {Len(dispatched) + 1} ELSE {}

\* A faulty sendToKafka: a message Produce refused is kept for delivery.
sendToKafkaKeep(from, message, produceOk) ==
    /\ dispatched' = Append(dispatched,
                         [from |-> from, value |-> message, accepted |-> produceOk])
    /\ inflight' = inflight \cup {Len(dispatched) + 1}

\* sendToKafka: build the message and hand it to Produce; an error of
\* Produce is logged and the message is gone.
sendToKafka(from, message, produceOk) ==
    /\ dispatched' = Append(dispatched,
                         [from |-> from, value |-> message, accepted |-> produceOk])
    /\ inflight' = IF produceOk THEN inflight \cup {Len(dispatched) + 1}
                   ELSE inflight

sendToKafkaLog(produceOk) ==
    IF produceOk THEN <<>> ELSE <<Warn("send_failed")>>

\* A faulty growth branch: lastSize = currentSize left out.
KeepLastSize(size) == lastSize

\* A faulty growth branch: lastSize taken from the file as it is after the
\* read, not from the tick's stat.
NewLastSizeRestat(size) == Len(file)

\* lastSize = currentSize, whatever readNewContent returned.
NewLastSize(size) == size

\* The second half of a growth tick: readNewContent, sendToKafka when the
\* content is not "", and the update of lastSize and lastModTime.
TickRead(r, k, produceOk) ==
    /\ pc = "read"
    /\ LET newContent == readNewContent(r, k, lastSize, currentSize)
       IN  IF newContent # <<>>
           THEN /\ sendToKafka(lastSize, newContent, produceOk)
                /\ out' = readNewContentLog(r, k, lastSize, currentSize)
                              \o sendToKafkaLog(produceOk)
           ELSE /\ out' = readNewContentLog(r, k, lastSize, currentSize)
                /\ UNCHANGED kafkaVars
    /\ lastSize' = NewLastSize(currentSize)
    /\ lastModTime' = currentModTime
    /\ pc' = "idle"
    /\ currentSize' = 0
    /\ currentModTime' = ZeroTime
    /\ UNCHANGED <<fileVars, collVars>>

\* ------------------------------------------------- delivery and collector
\* The producer sends the outcome of an accepted message on deliveryChan; the
\* channel is unbuffered, so the send happens when the collector receives.
Deliver(i, ok) ==
    /\ i \in inflight
    /\ collPc = "recv"
    /\ inflight' = inflight \ {i}
    /\ collEv' = [msg |-> i, ok |-> ok]
    /\ collPc' = "log"
    /\ UNCHANGED <<dispatched, reports, collOut>>
    /\ UNCHANGED <<fileVars, loopVars>>

\* A faulty collector: only a successful delivery is logged.
handleDeliveryReportsOkOnly ==
    /\ collPc = "log"
    /\ reports' = IF collEv.ok THEN reports (+) SetToBag({collEv.msg}) ELSE reports
    /\ collOut' = IF collEv.ok THEN <<Warn("delivered")>> ELSE collOut
    /\ collEv' = NoEvent
    /\ collPc' = "recv"
    /\ UNCHANGED <<fileVars, loopVars, kafkaVars>>

\* A faulty collector: after a failed delivery it rewinds main's lastSize to
\* the start of the message, for the next tick to send the range again.
handleDeliveryReportsRetry ==
    /\ collPc = "log"
    /\ reports' = reports (+) SetToBag({collEv.msg})
    /\ collOut' = <<Warn(IF collEv.ok THEN "delivered" ELSE "delivery_failed")>>
    /\ collEv' = NoEvent
    /\ collPc' = "recv"
    /\ lastSize' = IF collEv.ok THEN lastSize ELSE dispatched[collEv.msg].from
    /\ UNCHANGED <<pc, lastModTime, currentSize, currentModTime, out>>
    /\ UNCHANGED <<fileVars, kafkaVars>>

\* handleDeliveryReports: log the event received and go back to the channel.
handleDeliveryReports ==
    /\ collPc = "log"
    /\ reports' = reports (+) SetToBag({collEv.msg})
    /\ collOut' = <<Warn(IF collEv.ok THEN "delivered" ELSE "delivery_failed")>>
    /\ collEv' = NoEvent
    /\ collPc' = "recv"
    /\ UNCHANGED <<fileVars, loopVars, kafkaVars>>

\* ------------------------------------------- the display-only monitor
\* monitor.go's getFileInfo and the warning it logs.
MonGetFileInfo(statOk) ==
    IF statOk THEN <<Len(file), mtime>> ELSE <<0, ZeroTime>>

MonGetFileInfoLog(statOk) ==
    IF statOk THEN <<>> ELSE <<Warn("warn_stat")>>

\* displayNewContent: the lines it prints.  It returns nothing; the buffer
\* is printed whole, whatever count file.Read returned.
displayNewContent(r, k, oldSize, newSize) ==
    IF r = "open" THEN <<Warn("warn_open")>>
    ELSE IF r = "seek" THEN <<Warn("warn_seek")>>
    ELSE IF r = "read" \/ k = 0 THEN <<Warn("warn_read")>>
    ELSE <<Line("content", 0, 0,
                [i \in 1..(newSize - oldSize) |->
                    IF i <= k THEN file[oldSize + i] ELSE NUL])>>

\* monitor.go's main up to the ticker: the flag, filepath.Abs, os.Stat (fatal
\* only when the file does not exist), the baseline getFileInfo.
MonStartup(pathOk, exists, statOk) ==
    /\ mPc = "start"
    /\ IF pathOk /\ exists
       THEN /\ mPc' = "idle"
            /\ mLastSize' = MonGetFileInfo(statOk)[1]
            /\ mLastModTime' = MonGetFileInfo(statOk)[2]
            /\ mOut' = MonGetFileInfoLog(statOk)
                        \o <<Line("initial", 0, MonGetFileInfo(statOk)[1], <<>>)>>
       ELSE /\ mPc' = "fatal"
            /\ mOut' = <<Warn("fatal")>>
            /\ UNCHANGED <<mLastSize, mLastModTime>>
    /\ UNCHANGED <<mCurrentSize, mCurrentModTime>>

\* The first half of a tick of monitor.go.
MonTickStat(statOk) ==
    /\ mPc = "idle"
    /\ LET cs == MonGetFileInfo(statOk)[1]
           cm == MonGetFileInfo(statOk)[2]
       IN  IF cs > mLastSize
           THEN /\ mPc' = "read"
                /\ mCurrentSize' = cs
                /\ mCurrentModTime' = cm
                /\ mOut' = MonGetFileInfoLog(statOk)
                            \o <<Line("updated", cs - mLastSize, cs, <<>>)>>
                /\ UNCHANGED mLastModTime
           ELSE IF cm > mLastModTime
           THEN /\ mOut' = MonGetFileInfoLog(statOk)
                            \o <<Line("unchanged", 0, cs, <<>>)>>
                /\ mLastModTime' = cm
                /\ UNCHANGED <<mPc, mCurrentSize, mCurrentModTime>>
           ELSE /\ mOut' = MonGetFileInfoLog(statOk)
                /\ UNCHANGED <<mPc, mCurrentSize, mCurrentModTime, mLastModTime>>
    /\ UNCHANGED mLastSize

\* A faulty growth branch of monitor.go: lastSize and lastModTime are
\* updated only when the new content was displayed.
MonTickReadOnSuccess(r, k) ==
    /\ mPc = "read"
    /\ mOut' = displayNewContent(r, k, mLastSize, mCurrentSize)
    /\ IF r = "ok" /\ k > 0
       THEN mLastSize' = mCurrentSize /\ mLastModTime' = mCurrentModTime
       ELSE UNCHANGED <<mLastSize, mLastModTime>>
    /\ mPc' = "idle"
    /\ mCurrentSize' = 0
    /\ mCurrentModTime' = ZeroTime

\* The second half of a growth tick of monitor.go: displayNewContent and the
\* update of lastSize and lastModTime.
MonTickRead(r, k) ==
    /\ mPc = "read"
    /\ mOut' = displayNewContent(r, k, mLastSize, mCurrentSize)
    /\ mLastSize' = mCurrentSize
    /\ mLastModTime' = mCurrentModTime
    /\ mPc' = "idle"
    /\ mCurrentSize' = 0
    /\ mCurrentModTime' = ZeroTime

\* ------------------------------------------------------- the log writer
\* A write or a touch takes the clock's reading: within one reading of the
\* clock the modification time stays what it was.
MTimes == {mtime} \cup ({mtime + 1} \cap (1..MaxTime))

Running == pc \in {"idle", "read"}

WriterAppend(t) ==
    /\ Running
    /\ Len(file) < MaxFileLen
    /\ file' = Append(file, ByteAt(Len(file)))
    /\ mtime' = t
    /\ UNCHANGED <<loopVars, kafkaVars, collVars>>

WriterTruncate(n, t) ==
    /\ Running
    /\ n < Len(file)
    /\ file' = SubSeq(file, 1, n)
    /\ mtime' = t
    /\ UNCHANGED <<loopVars, kafkaVars, collVars>>

WriterTouch ==
    /\ Running
    /\ mtime < MaxTime
    /\ mtime' = mtime + 1
    /\ UNCHANGED <<file, loopVars, kafkaVars, collVars>>

\* ------------------------------------------------------------------ Next
Next ==
    \/ \E pathOk, exists, cfgOk, prodOk, statOk \in BOOLEAN :
           Startup(pathOk, exists, cfgOk, prodOk, statOk) /\ UNCHANGED monVars
    \/ \E statOk \in BOOLEAN : TickStat(statOk) /\ UNCHANGED monVars
    \/ \E r \in ReadOutcomes : \E k \in ReadCounts(lastSize, currentSize) :
           \E produceOk \in BOOLEAN : TickRead(r, k, produceOk) /\ UNCHANGED monVars
    \/ \E i \in inflight : \E ok \in BOOLEAN : Deliver(i, ok) /\ UNCHANGED monVars
    \/ handleDeliveryReports /\ UNCHANGED monVars
    \/ \E t \in MTimes : WriterAppend(t) /\ UNCHANGED monVars
    \/ \E n \in 0..MaxFileLen : \E t \in MTimes : WriterTruncate(n, t) /\ UNCHANGED monVars
    \/ WriterTouch /\ UNCHANGED monVars

Spec == Init /\ [][Next]_vars

\* The collector is a goroutine of its own: an event it has received it logs.
SpecFair == Spec /\ WF_vars(handleDeliveryReports /\ UNCHANGED monVars)

\* The same program started on a file of InitLen bytes.
InitBase == Init /\ file = Text(InitLen)
SpecBase == InitBase /\ [][Next]_vars

\* The two monitors side by side on one file: each stat and each read gives
\* both the same result, in the same instant.
NextPair ==
    \/ \E pathOk, exists, cfgOk, prodOk, statOk \in BOOLEAN :
           /\ Startup(pathOk, exists, cfgOk, prodOk, statOk)
           /\ MonStartup(pathOk, exists, statOk)
    \/ \E statOk \in BOOLEAN : TickStat(statOk) /\ MonTickStat(statOk)
    \/ \E r \in ReadOutcomes : \E k \in ReadCounts(lastSize, currentSize) :
           \E produceOk \in BOOLEAN :
               TickRead(r, k, produceOk) /\ MonTickRead(r, k)
    \/ \E i \in inflight : \E ok \in BOOLEAN : Deliver(i, ok) /\ UNCHANGED monVars
    \/ handleDeliveryReports /\ UNCHANGED monVars
    \/ \E t \in MTimes : WriterAppend(t) /\ UNCHANGED monVars
    \/ \E n \in 0..MaxFileLen : \E t \in MTimes :
           WriterTruncate(n, t) /\ UNCHANGED monVars
    \/ WriterTouch /\ UNCHANGED monVars

SpecPair == Init /\ [][NextPair]_vars

\* The program on its ticker after a start-up that took its baseline on a
\* file of InitLen bytes, the writer having cut the file short since: lastSize
\* is InitLen, the size before the shrink.
InitShrunk ==
    /\ file \in {Text(n) : n \in 0..(InitLen - 1)}
    /\ mtime \in {1} \cup ({2} \cap (1..MaxTime))
    /\ pc = "idle"
    /\ lastSize = InitLen
    /\ lastModTime = 1
    /\ currentSize = 0
    /\ currentModTime = ZeroTime
    /\ out = <<Line("initial", 0, InitLen, <<>>)>>
    /\ dispatched = <<>>
    /\ inflight = {}
    /\ collPc = "recv"
    /\ collEv = NoEvent
    /\ reports = EmptyBag
    /\ collOut = <<>>
    /\ mPc = "start"
    /\ mLastSize = 0
    /\ mLastModTime = ZeroTime
    /\ mCurrentSize = 0
    /\ mCurrentModTime = ZeroTime
    /\ mOut = <<>>

NextShrunk ==
    \/ \E statOk \in BOOLEAN : TickStat(statOk) /\ UNCHANGED monVars
    \/ \E r \in ReadOutcomes : \E k \in ReadCounts(lastSize, currentSize) :
           \E produceOk \in BOOLEAN : TickRead(r, k, produceOk) /\ UNCHANGED monVars
    \/ \E i \in inflight : \E ok \in BOOLEAN : Deliver(i, ok) /\ UNCHANGED monVars
    \/ handleDeliveryReports /\ UNCHANGED monVars
    \/ \E t \in MTimes : WriterAppend(t) /\ UNCHANGED monVars
    \/ \E n \in 0..MaxFileLen : \E t \in MTimes : WriterTruncate(n, t) /\ UNCHANGED monVars
    \/ WriterTouch /\ UNCHANGED monVars

SpecShrunk == InitShrunk /\ [][NextShrunk]_vars

\* An append-only file whose baseline was taken: start-up succeeds and its
\* getFileInfo too, the writer never truncates; every later stat, open, seek,
\* read and Produce may still fail.
NextAppend ==
    \/ Startup(TRUE, TRUE, TRUE, TRUE, TRUE) /\ UNCHANGED monVars
    \/ \E statOk \in BOOLEAN : TickStat(statOk) /\ UNCHANGED monVars
    \/ \E r \in ReadOutcomes : \E k \in ReadCounts(lastSize, currentSize) :
           \E produceOk \in BOOLEAN : TickRead(r, k, produceOk) /\ UNCHANGED monVars
    \/ \E i \in inflight : \E ok \in BOOLEAN : Deliver(i, ok) /\ UNCHANGED monVars
    \/ handleDeliveryReports /\ UNCHANGED monVars
    \/ \E t \in MTimes : WriterAppend(t) /\ UNCHANGED monVars
    \/ WriterTouch /\ UNCHANGED monVars

SpecAppend == InitBase /\ [][NextAppend]_vars

\* Normal conditions: an append-only file, and no stat, open, seek or read
\* fails or returns fewer bytes than asked.  Produce and delivery may fail.
NextNormal ==
    \/ Startup(TRUE, TRUE, TRUE, TRUE, TRUE) /\ UNCHANGED monVars
    \/ TickStat(TRUE) /\ UNCHANGED monVars
    \/ \E produceOk \in BOOLEAN :
           TickRead("ok", currentSize - lastSize, produceOk) /\ UNCHANGED monVars
    \/ \E i \in inflight : \E ok \in BOOLEAN : Deliver(i, ok) /\ UNCHANGED monVars
    \/ handleDeliveryReports /\ UNCHANGED monVars
    \/ \E t \in MTimes : WriterAppend(t) /\ UNCHANGED monVars
    \/ WriterTouch /\ UNCHANGED monVars

SpecNormal == Init /\ [][NextNormal]_vars

\* ------------------------------------------------- what the claims speak of
Msgs == 1..Len(dispatched)
\* The file offsets a message covers are [m.from, RangeEnd(m)).
RangeEnd(m) == m.from + Len(m.value)

RECURSIVE ConcatPayloads(_)
ConcatPayloads(n) ==
    IF n = 0 THEN <<>> ELSE ConcatPayloads(n - 1) \o dispatched[n].value

InOffsetOrder ==
    \A i, j \in Msgs : i < j => RangeEnd(dispatched[i]) <= dispatched[j].from

WarnKinds == {"warn_stat", "warn_open", "warn_seek", "warn_read", "send_failed"}
Logged(lines, kinds) == \E i \in DOMAIN lines : lines[i].kind \in kinds

\* C1 (SpecAppend: append-only file, baseline InitLen taken).  Between ticks
\* the payloads dispatched so far, put end to end, are exactly the bytes
\* appended after the baseline up to lastSize, and no offset is in two payloads.
C1_NoDuplication ==
    pc = "idle" =>
        /\ ConcatPayloads(Len(dispatched)) = SubSeq(file, InitLen + 1, lastSize)
        /\ InOffsetOrder

\* C2 (SpecNormal: append-only file, no stat or read fails or falls short).
\* Every payload is the file's bytes of its range, each range starts where the
\* one before ended and the last one ends at lastSize; lastSize moves only by
\* dispatching exactly the bytes it moves over, so the ranges start at the
\* baseline; and a tick reads up to the size the file has at its stat, or, when
\* it dispatches nothing, nothing is outstanding.
C2_Covered ==
    /\ \A i \in Msgs :
          /\ dispatched[i].value
                = SubSeq(file, dispatched[i].from + 1, RangeEnd(dispatched[i]))
          /\ i > 1 => dispatched[i].from = RangeEnd(dispatched[i - 1])
    /\ (pc = "idle" /\ dispatched # <<>>)
          => RangeEnd(dispatched[Len(dispatched)]) = lastSize

C2_Advance ==
    (pc # "start" /\ lastSize' # lastSize) =>
        /\ Len(dispatched') = Len(dispatched) + 1
        /\ dispatched'[Len(dispatched')].from = lastSize
        /\ RangeEnd(dispatched'[Len(dispatched')]) = lastSize'

C2_CaughtUp ==
    TickStat(TRUE) =>
        /\ pc' = "idle" => lastSize = Len(file)
        /\ pc' = "read" => currentSize' = Len(file)

\* C2: under normal conditions every appended byte is in exactly one payload,
\* in file order, and a tick leaves nothing of what its stat saw undispatched.
C2_NoLoss == [](C2_Covered) /\ [][C2_Advance /\ C2_CaughtUp]_vars

\* C2 witness: two deltas dispatched one after the other, the loop caught up.
C2_Witness ==
    /\ pc = "idle"
    /\ Len(dispatched) >= 2
    /\ lastSize = Len(file)

\* C3 (Spec).  A read that returns k bytes, fewer than asked, advances
\* lastSize by k.
C3_UnderReadRecovery ==
    [][\A k \in ReadCounts(lastSize, currentSize) : \A produceOk \in BOOLEAN :
          (TickRead("ok", k, produceOk) /\ 0 < k /\ k < currentSize - lastSize)
              => lastSize' = lastSize + k]_vars

\* C4 (Spec).  A growth tick whose open, seek or read fails dispatches nothing
\* and leaves lastSize and lastModTime as they were.
C4_ReadFailureKeepsState ==
    [][\A r \in ReadOutcomes : \A k \in ReadCounts(lastSize, currentSize) :
          \A produceOk \in BOOLEAN :
              (TickRead(r, k, produceOk) /\ (r # "ok" \/ k = 0))
                  => /\ dispatched' = dispatched
                     /\ lastSize' = lastSize
                     /\ lastModTime' = lastModTime]_vars

\* C5 (SpecBase: the file holds InitLen bytes at start-up).  No payload holds
\* an offset below InitLen, whatever the baseline getFileInfo returned.
C5_Baseline ==
    \A i \in Msgs : dispatched[i].from >= InitLen

\* C6 (Spec).  A growth tick reports currentSize - lastSize new bytes, and a
\* read that did not fail dispatches one message whose value is the file's
\* bytes of [lastSize, currentSize).
C6_Report ==
    (TickStat(TRUE) /\ Len(file) > lastSize) =>
        /\ pc' = "read"
        /\ out' = <<Line("updated", Len(file) - lastSize, Len(file), <<>>)>>

C6_Payload ==
    \A k \in ReadCounts(lastSize, currentSize) : \A produceOk \in BOOLEAN :
        (TickRead("ok", k, produceOk) /\ k > 0 /\ Len(file) >= currentSize)
            => dispatched' = Append(dispatched,
                   [from |-> lastSize,
                    value |-> SubSeq(file, lastSize + 1, currentSize),
                    accepted |-> produceOk])

\* C6: the growth report and the payload of a growth tick.
C6_GrowthTick == [][C6_Report /\ C6_Payload]_vars

\* C7 (Spec).  A tick that finds the size equal to lastSize and a later
\* modification time prints the size-unchanged line, takes the new time and
\* touches nothing else; a tick that finds neither advanced prints and changes
\* nothing.
C7_MetadataOnly ==
    [][TickStat(TRUE) =>
          /\ (Len(file) = lastSize /\ mtime > lastModTime)
                => /\ out' = <<Line("unchanged", 0, Len(file), <<>>)>>
                   /\ lastModTime' = mtime
                   /\ UNCHANGED <<lastSize, pc, dispatched, inflight>>
          /\ (Len(file) <= lastSize /\ mtime <= lastModTime)
                => /\ out' = <<>>
                   /\ UNCHANGED <<lastSize, lastModTime, pc, dispatched, inflight>>
      ]_vars

\* C7 witness: after a touch of a file with content, the size-unchanged tick.
C7_Witness ==
    /\ pc = "idle"
    /\ lastSize > 0
    /\ out = <<Line("unchanged", 0, lastSize, <<>>)>>
    /\ lastSize = Len(file)
    /\ lastModTime = mtime
    /\ dispatched = <<>>

\* C8 (Spec).  A tick that finds the file shorter than lastSize reads nothing,
\* dispatches nothing and logs a warning; no read request and no payload is
\* ever shorter than one byte.
C8_ShrinkTick ==
    (TickStat(TRUE) /\ Len(file) < lastSize) =>
        /\ pc' = "idle"
        /\ dispatched' = dispatched
        /\ Logged(out', WarnKinds)

C8_Lengths ==
    /\ \A i \in Msgs : Len(dispatched[i].value) >= 1
    /\ pc = "read" => currentSize - lastSize >= 1

\* C8: a shrunken file is read from never, and its shrinkage is logged.
C8_Shrinkage == [](C8_Lengths) /\ [][C8_ShrinkTick]_vars

\* C9 (Spec).  A tick whose stat fails logs the warning, leaves lastSize and
\* lastModTime as they were, dispatches nothing and goes back to the ticker.
C9_StatFailure ==
    [][TickStat(FALSE) =>
          /\ out' = <<Warn("warn_stat")>>
          /\ pc' = "idle"
          /\ UNCHANGED <<lastSize, lastModTime, dispatched, inflight>>]_vars

\* C9 witness: the stat failed on a tick of a file that had grown.
C9_Witness ==
    /\ pc = "idle"
    /\ out = <<Warn("warn_stat")>>
    /\ lastSize > 0
    /\ Len(file) > lastSize
    /\ lastModTime # ZeroTime

\* C10 (Spec).  The ranges of the messages are in offset order, one after the
\* other, and all end at or before lastSize, where the next read starts.
C10_Ordering ==
    /\ InOffsetOrder
    /\ \A i \in Msgs : RangeEnd(dispatched[i]) <= lastSize

\* C10 witness: a second delta is dispatched while the first is in flight.
C10_Witness ==
    /\ Len(dispatched) >= 2
    /\ 1 \in inflight
    /\ pc = "read"

\* C11 (Spec).  Whatever the stat, the read and Produce answer, the step of
\* the poll loop that is due can be taken: no number of messages without an
\* outcome and no state of the collector holds it back.
C11_NonBlocking ==
    /\ pc = "idle" => \A statOk \in BOOLEAN : ENABLED TickStat(statOk)
    /\ pc = "read" =>
          \A r \in ReadOutcomes : \A k \in ReadCounts(lastSize, currentSize) :
              \A produceOk \in BOOLEAN : ENABLED TickRead(r, k, produceOk)

\* C11 witness: a growth tick is about to read and send while an earlier
\* message has no outcome and the collector is busy logging, not receiving.
C11_Witness ==
    /\ pc = "read"
    /\ inflight # {}
    /\ collPc = "log"

\* ----------------------------------------------------------- the outcomes
Accepted == {i \in Msgs : dispatched[i].accepted}
Held == IF collPc = "log" THEN {collEv.msg} ELSE {}
LoggedMsgs == BagToSet(reports)

\* C12 (SpecFair).  Every message Produce accepted is in exactly one place:
\* without an outcome, with the collector, or logged, and logged once; the
\* collector logs the event it holds as a success or as a failure; and an
\* event the collector received is logged in the end, in whatever order the
\* outcomes arrive.
C12_Once ==
    /\ \A i \in LoggedMsgs : CopiesIn(i, reports) = 1
    /\ inflight \cup Held \cup LoggedMsgs = Accepted
    /\ inflight \cap Held = {}
    /\ inflight \cap LoggedMsgs = {}
    /\ Held \cap LoggedMsgs = {}
    /\ BagCardinality(reports) <= Cardinality(Accepted)

C12_LogStep ==
    (collPc = "log" /\ collPc' # "log") =>
        /\ reports' = reports (+) SetToBag({collEv.msg})
        /\ collOut' = <<Warn(IF collEv.ok THEN "delivered" ELSE "delivery_failed")>>

\* The collector does not keep an event: it gets back to the channel, and by
\* C12_LogStep it then has logged the event it held.
C12_Received == (collPc = "log") ~> (collPc = "recv")

\* C12: each outcome is logged exactly once, and in the end.
C12_OutcomeReporting == [](C12_Once) /\ [][C12_LogStep]_vars /\ C12_Received

\* C12 witness: the second message's outcome is logged, as a failure, while
\* the first message still has none.
C12_Witness ==
    /\ 1 \in inflight
    /\ 2 \in LoggedMsgs
    /\ collOut = <<Warn("delivery_failed")>>

\* C13 (Spec).  A message Produce refused is logged as failed and is nowhere
\* afterwards: not in flight, not with the collector, never logged; the loop
\* goes on from currentSize, and no later message holds any of its offsets.
C13_Gone ==
    \A i \in Msgs : ~dispatched[i].accepted =>
        /\ i \notin inflight \cup Held \cup LoggedMsgs
        /\ RangeEnd(dispatched[i]) <= lastSize
        /\ \A j \in Msgs : j > i => dispatched[j].from >= RangeEnd(dispatched[i])

C13_RefusedStep ==
    \A r \in ReadOutcomes : \A k \in ReadCounts(lastSize, currentSize) :
        (TickRead(r, k, FALSE) /\ Len(dispatched') > Len(dispatched)) =>
            /\ Logged(out', {"send_failed"})
            /\ inflight' = inflight
            /\ pc' = "idle"
            /\ lastSize' = currentSize

\* C13: a submission error drops the message for good and stops nothing.
C13_SubmissionError == [](C13_Gone) /\ [][C13_RefusedStep]_vars

\* C13 witness: the first message was refused, and a later delta was sent.
C13_Witness ==
    /\ Len(dispatched) >= 2
    /\ ~dispatched[1].accepted
    /\ dispatched[2].accepted
    /\ pc = "idle"

\* A step of the poll loop, whatever its inputs.
PollStep ==
    \/ \E statOk \in BOOLEAN : TickStat(statOk)
    \/ \E r \in ReadOutcomes : \E k \in ReadCounts(lastSize, currentSize) :
          \E produceOk \in BOOLEAN : TickRead(r, k, produceOk)

\* C14 (Spec).  Once the loop runs it keeps running: no step, whatever fails
\* and whatever happens to the file, takes main out of the loop, and a further
\* step of the loop can always be taken.
C14_NoFatalInLoop ==
    /\ [](Running => ENABLED PollStep)
    /\ [][Running => pc' \in {"idle", "read"}]_vars

\* C14 witness: after a refused message, a failed delivery and a truncation,
\* a tick whose stat failed has left the loop on its ticker.
C14_Witness ==
    /\ pc = "idle"
    /\ out = <<Warn("warn_stat")>>
    /\ Len(file) < lastSize
    /\ dispatched # <<>>
    /\ ~dispatched[1].accepted
    /\ collOut = <<Warn("delivery_failed")>>

\* C15 (Spec).  A start-up in which the path is empty or cannot be resolved,
\* the file cannot be observed, the configuration cannot be loaded or the
\* producer cannot be built ends the process: the collector is not started,
\* and a process that ended so has dispatched nothing.
C15_FatalStep ==
    \A pathOk, exists, cfgOk, prodOk, statOk \in BOOLEAN :
        ( /\ Startup(pathOk, exists, cfgOk, prodOk, statOk)
          /\ ~(pathOk /\ exists /\ cfgOk /\ prodOk /\ statOk) )
        => (pc' = "fatal" /\ collPc' = "off")

C15_StartupFatal ==
    /\ [][C15_FatalStep]_vars
    /\ [](pc = "fatal" => (dispatched = <<>> /\ collPc = "off"))

\* C16 (Spec).  The "File modified but size unchanged" line is printed, and
\* lastModTime refreshed with no message, only on a tick whose stat found the
\* size equal to lastSize and the modification time after lastModTime.
C16_UnchangedStep ==
    \A statOk \in BOOLEAN :
        (TickStat(statOk) /\ Logged(out', {"unchanged"}))
        => /\ statOk
           /\ Len(file) = lastSize
           /\ mtime > lastModTime
           /\ lastModTime' = mtime
           /\ dispatched' = dispatched

C16_OnlySizeUnchanged == [][C16_UnchangedStep]_vars

\* C17 (Spec).  lastSize never decreases once the baseline is taken, and it
\* changes only in the growth branch, to a size the tick's stat found greater
\* than lastSize.
C17_SizeStep ==
    pc # "start" =>
        /\ lastSize' >= lastSize
        /\ lastSize' # lastSize =>
              /\ pc = "read"
              /\ currentSize > lastSize
              /\ lastSize' = currentSize

C17_Monotone == [][C17_SizeStep]_vars

\* C17 witness: the file is shorter than lastSize and a tick has seen it
\* (its modification time was newer), yet lastSize stands.
C17_Witness ==
    /\ pc = "idle"
    /\ Len(file) < lastSize
    /\ out = <<Line("unchanged", 0, Len(file), <<>>)>>
    /\ dispatched # <<>>

\* C18 (Spec).  The two goroutines share no state: a step that changes the
\* collector's state (the hand-over of an outcome on the channel, the logging
\* of it) leaves main's state and the dispatched messages as they are, and a
\* step of the poll loop leaves the collector's state, the event in the
\* hand-over included, as it is.
C18_CollectorFrame ==
    (pc # "start" /\ collVars' # collVars) =>
        (loopVars' = loopVars /\ dispatched' = dispatched)

C18_LoopFrame == PollStep => collVars' = collVars

C18_NoSharedState == [][C18_CollectorFrame /\ C18_LoopFrame]_vars

\* C18 witness: the collector holds a failed delivery it has not logged yet
\* while main is between the stat and the read of a growth tick.
C18_Witness ==
    /\ pc = "read"
    /\ collPc = "log"
    /\ ~collEv.ok
    /\ lastSize > 0
    /\ inflight # {}

\* C19 (SpecShrunk).  After the file shrank below lastSize = InitLen: no
\* message starts below InitLen, lastSize does not fall below it, and the
\* first message dispatched afterwards is the range from InitLen to the size
\* its tick found.
C19_ShrinkRegrow ==
    /\ lastSize >= InitLen
    /\ \A i \in Msgs : dispatched[i].from >= InitLen
    /\ dispatched # <<>> =>
          /\ dispatched[1].from = InitLen
          /\ RangeEnd(dispatched[1]) > InitLen

\* The lines of a step without those about the producer.
NotOfKafka(line) == line.kind # "send_failed"
Displayed(lines) ==
    {lines[i].text : i \in {j \in DOMAIN lines : lines[j].kind = "content"}}

\* C20 (SpecPair).  While the Kafka monitor runs, monitor.go given the same
\* stat and read results is at the same place with the same lastSize and
\* lastModTime, and has printed the same lines but for the producer's.
C20_SameState ==
    Running =>
        /\ mPc = pc
        /\ mLastSize = lastSize
        /\ mLastModTime = lastModTime
        /\ mOut = SelectSeq(out, NotOfKafka)

\* A message is dispatched exactly in the steps in which monitor.go displays
\* new content, and it is the content displayed.
C20_DispatchStep ==
    LET shown == IF mPc = "read" /\ mPc' = "idle" THEN Displayed(mOut') ELSE {}
    IN  /\ dispatched' # dispatched <=> shown # {}
        /\ shown # {} =>
              /\ Len(dispatched') = Len(dispatched) + 1
              /\ shown = {dispatched'[Len(dispatched')].value}
              /\ <<>> \notin shown

C20_VariantEquivalence == [](C20_SameState) /\ [][C20_DispatchStep]_vars

\* C20 witness: both monitors have read new content from past the start of
\* the file, monitor.go has displayed it, and the producer refused the one
\* message made of it.
C20_Witness ==
    /\ mPc = "idle"
    /\ Displayed(mOut) # {}
    /\ Logged(out, {"send_failed"})
    /\ mLastSize = Len(file)
    /\ Len(dispatched) = 1
    /\ dispatched[1].from > 0

====
